---------------------------- MODULE Spec2Model ----------------------------
(***************************************************************************)
(* Model of the query-safety core of the Open WebUI database toolkit:      *)
(*   src/custom_tool/Database & Utility Toolkit.py  (catalog, guard,       *)
(*       structured builder, natural-language wrapper, execution)          *)
(*   src/custom_tool/redshift_query_tool.py         (raw Redshift tool)    *)
(*   src/custom_pipe/Text to SQL RAG.py             (text-to-SQL pipe)     *)
(*                                                                         *)
(* SQL statements, prompts and error messages are TLA+ strings; the        *)
(* Python string methods the code uses (upper, lower, startswith, in,      *)
(* split, strip, replace, join) are operators over them, computed the way  *)
(* Python computes them.                                                   *)
(***************************************************************************)
EXTENDS Integers, Sequences, FiniteSets, TLC

VARIABLES
    schemas,    \* the module-level catalog: ordered mapping table -> columns
    pc,         \* per request: the position inside the running entry point
    fn,         \* per request: the entry point the caller invoked
    prompt,     \* per request: safe_nl_query's user_prompt
    request,    \* per request: nlp_to_sql's structured_input
    sql_arg,    \* per request: the statement run_sql_query/query_redshift got
    query,      \* per request: run_sql_query's local `query`
    permitted_tables,  \* per request: run_sql_query's local of that name
    result,     \* per request: what the caller gets (return value or exception)
    vetted,     \* per request: statements the guard has let through
    executed,   \* per request: statements handed to conn.execute
    opened,     \* per request: connections opened so far
    open,       \* per request: connections currently open
    fault,      \* per request: text of the exception in flight inside the try
    rows,       \* per request: the result set fetched from the database
    events,     \* per request: the status events handed to the event emitter
    tables,     \* per request: get_tables_schema's list of names
    engine,     \* per request: the local `engine` of run_sql_query/query_redshift
    self_engine,  \* Pipe.engine, one attribute of the one Pipe object
    conn_engine \* per request: the engine its connection was taken from

vars == <<schemas, pc, fn, prompt, request, sql_arg, query, permitted_tables, result,
          vetted, executed, opened, open, fault, rows, events, tables,
          engine, self_engine, conn_engine>>

\* what the caller passed in, and what the database connection has seen
args == <<fn, prompt, request, sql_arg, permitted_tables, tables>>
db   == <<executed, opened, open, fault, rows>>

\* the engines: an engine is named by the request that created it, 0 is None
engines == <<engine, self_engine, conn_engine>>

-----------------------------------------------------------------------------
(* Bounds of the model *)

\* number of whitespace-separated words of a raw SQL statement
MaxWords == 3

\* number of columns a structured request names
MaxColumns == 2

\* largest row limit a structured request names
MaxLimit == 3

\* number of phrases of a natural-language prompt
MaxPhrases == 3

\* number of names in a schema lookup
MaxNames == 2

\* the requests alive at once in the sequential specification
Procs == {1}

\* the requests alive at once when calls overlap
Requests == {1, 2}

-----------------------------------------------------------------------------
(* Python string methods *)

LowerAlpha == "abcdefghijklmnopqrstuvwxyz"
UpperAlpha == "ABCDEFGHIJKLMNOPQRSTUVWXYZ"

Char(s, i) == SubSeq(s, i, i)

LowerLetters == {Char(LowerAlpha, i) : i \in 1..26}
UpperLetters == {Char(UpperAlpha, i) : i \in 1..26}

UpperOf == [c \in LowerLetters |->
               Char(UpperAlpha, CHOOSE i \in 1..26 : Char(LowerAlpha, i) = c)]
LowerOf == [c \in UpperLetters |->
               Char(LowerAlpha, CHOOSE i \in 1..26 : Char(UpperAlpha, i) = c)]

Min(S) == CHOOSE x \in S : \A y \in S : x <= y
Max(S) == CHOOSE x \in S : \A y \in S : x >= y

\* s.upper(), by halves (a character maps to its upper-case form)
RECURSIVE PyUpper(_)
PyUpper(s) ==
    IF s = "" THEN ""
    ELSE IF Len(s) = 1 THEN (IF s \in LowerLetters THEN UpperOf[s] ELSE s)
    ELSE LET h == Len(s) \div 2
         IN  PyUpper(SubSeq(s, 1, h)) \o PyUpper(SubSeq(s, h + 1, Len(s)))

\* s.lower()
RECURSIVE PyLower(_)
PyLower(s) ==
    IF s = "" THEN ""
    ELSE IF Len(s) = 1 THEN (IF s \in UpperLetters THEN LowerOf[s] ELSE s)
    ELSE LET h == Len(s) \div 2
         IN  PyLower(SubSeq(s, 1, h)) \o PyLower(SubSeq(s, h + 1, Len(s)))

\* the positions at which sub occurs in s
Occurrences(s, sub) ==
    {i \in 1..(Len(s) - Len(sub) + 1) : SubSeq(s, i, i + Len(sub) - 1) = sub}

\* `sub in s`
PyIn(sub, s) ==
    \E i \in 1..(Len(s) - Len(sub) + 1) : SubSeq(s, i, i + Len(sub) - 1) = sub

\* s.startswith(pre)
PyStartsWith(s, pre) ==
    Len(s) >= Len(pre) /\ SubSeq(s, 1, Len(pre)) = pre

\* s.find(sub), 1-based; 0 when sub does not occur
PyFind(s, sub) ==
    LET at == Occurrences(s, sub) IN IF at = {} THEN 0 ELSE Min(at)

\* s.split(sep, 1)
PySplit1(s, sep) ==
    LET i == PyFind(s, sep)
    IN  IF i = 0 THEN <<s>>
        ELSE <<SubSeq(s, 1, i - 1), SubSeq(s, i + Len(sep), Len(s))>>

Whitespace == {" ", "\t", "\n", "\r", "\f"}

\* the positions of s that hold a character outside cs
Outside(s, cs) == {i \in 1..Len(s) : Char(s, i) \notin cs}

\* s.lstrip()
PyLStrip(s) ==
    LET ink == Outside(s, Whitespace)
    IN  IF ink = {} THEN "" ELSE SubSeq(s, Min(ink), Len(s))

\* s.rstrip()
PyRStrip(s) ==
    LET ink == Outside(s, Whitespace)
    IN  IF ink = {} THEN "" ELSE SubSeq(s, 1, Max(ink))

\* s.strip()
PyStrip(s) == PyRStrip(PyLStrip(s))

\* length of the longest run of characters of cs that starts at s[i]
RunLen(s, i, cs) ==
    LET stop == {j \in i..Len(s) : Char(s, j) \notin cs}
    IN  IF i > Len(s) THEN 0
        ELSE IF stop = {} THEN Len(s) - i + 1
        ELSE Min(stop) - i

\* s.split(): the whitespace-delimited tokens of s
RECURSIVE PySplit(_)
PySplit(s) ==
    LET t == PyLStrip(s)
        gaps == {i \in 1..Len(t) : Char(t, i) \in Whitespace}
        n == IF gaps = {} THEN Len(t) ELSE Min(gaps) - 1
    IN  IF t = "" THEN <<>>
        ELSE <<SubSeq(t, 1, n)>> \o PySplit(SubSeq(t, n + 1, Len(t)))

\* s.replace(old, new) for a non-empty old: every non-overlapping occurrence,
\* left to right
RECURSIVE PyReplace(_, _, _)
PyReplace(s, old, new) ==
    LET i == PyFind(s, old)
    IN  IF i = 0 THEN s
        ELSE SubSeq(s, 1, i - 1) \o new
                \o PyReplace(SubSeq(s, i + Len(old), Len(s)), old, new)

\* sep.join(parts)
RECURSIVE PyJoin(_, _)
PyJoin(sep, parts) ==
    IF parts = <<>> THEN ""
    ELSE IF Len(parts) = 1 THEN parts[1]
         ELSE parts[1] \o sep \o PyJoin(sep, Tail(parts))


Range(f) == {f[i] : i \in DOMAIN f}

-----------------------------------------------------------------------------
(* The catalog *)

\* The module-level `schemas` dict, reduced to five of its entries, in the
\* order of the source, each with (at most) its first two declared columns.
\* api__analytics__affiliates has no "columns" key in the source.
\* api__analytics__summery also has the one column of the catalog whose name
\* contains `from`.
CatalogAtLoad ==
    << [name |-> "api__analytics__orders",
        columns |-> <<"order_id", "order_created_at_date">>],
       [name |-> "api__analytics__store_token",
        columns |-> <<"store_id">>],
       [name |-> "api__analytics__affiliates",
        columns |-> <<>>],
       [name |-> "api__analytics__orders_marketplace_stores",
        columns |-> <<"order_id", "order_created_at_date">>],
       [name |-> "api__analytics__summery",
        columns |-> <<"store_id", "activity_date",
                      "orders_from_automated_discounts_count">>] >>

\* list(d.keys()) of an ordered mapping
Keys(d) == [i \in 1..Len(d) |-> d[i].name]

\* Variant: the table list is computed once, at load, and reused.
database_permitted_tables_Cached(catalog) ==
    [database |-> "dev", schema |-> "platinum", tables |-> Keys(CatalogAtLoad)]

\* database_permitted_tables(): computed from the catalog it is handed
database_permitted_tables(catalog) ==
    [database |-> "dev", schema |-> "platinum", tables |-> Keys(catalog)]

-----------------------------------------------------------------------------
(* The guard inside Tools.run_sql_query *)

blacklisted_keywords == <<"INSERT", "DROP", "DELETE", "TRUNCATE", "ALTER">>

\* Variant: the loop reports the last keyword found instead of the first.
BlockedKeyword_LastHit(q) ==
    LET upper_sql == PyUpper(q)
        hits == {i \in DOMAIN blacklisted_keywords :
                    /\ PyIn(blacklisted_keywords[i], upper_sql)
                    /\ ~PyStartsWith(upper_sql, "SELECT")}
    IN  IF hits = {} THEN "" ELSE blacklisted_keywords[Max(hits)]

\* Variant: the SELECT exemption is tested on the statement as written,
\* not on its upper-case form.
BlockedKeyword_RawPrefix(q) ==
    LET upper_sql == PyUpper(q)
        hits == {i \in DOMAIN blacklisted_keywords :
                    /\ PyIn(blacklisted_keywords[i], upper_sql)
                    /\ ~PyStartsWith(q, "SELECT")}
    IN  IF hits = {} THEN "" ELSE blacklisted_keywords[Min(hits)]

\* The for loop over blacklisted_keywords: the keyword it returns on, or ""
\* when the loop runs to its end.
BlockedKeyword(q) ==
    LET upper_sql == PyUpper(q)
        hits == {i \in DOMAIN blacklisted_keywords :
                    /\ PyIn(blacklisted_keywords[i], upper_sql)
                    /\ ~PyStartsWith(upper_sql, "SELECT")}
    IN  IF hits = {} THEN "" ELSE blacklisted_keywords[Min(hits)]

\* Variant: an error mapping that also carries an empty row list.
ErrorResult_WithRows(message) == [error |-> message, rows |-> <<>>]

\* the two shapes of the result envelope
ErrorResult(message) == [error |-> message]
RowsResult(rs)       == [rows |-> rs]

Return(v) == [kind |-> "return", value |-> v]
Raise(e)  == [kind |-> "raise", exc |-> e]
Pass(q)   == [kind |-> "pass", query |-> q]
Pending   == [kind |-> "pending"]

\* [t.lower() for t in permitted["tables"]]
LoweredTables(allowed) ==
    [i \in DOMAIN allowed.tables |-> PyLower(allowed.tables[i])]

\* Variants of the permitted-table check: a statement without FROM is turned
\* away instead of passing through.
TableCheck_Variant(q, allowed, from_required) ==
    LET upper_sql        == PyUpper(q)
        permitted_schema == allowed.schema
        lowered          == LoweredTables(allowed)
    IN  IF ~PyIn("FROM", upper_sql)
        THEN IF from_required
             THEN Return(ErrorResult("Query names no table."))
             ELSE Pass(q)
        ELSE LET parts == PySplit1(q, "FROM")
             IN  IF Len(parts) < 2 THEN Raise("IndexError")
                 ELSE LET after_from == PyStrip(parts[2])
                          tokens     == PySplit(after_from)
                      IN  IF tokens = <<>> THEN Raise("IndexError")
                          ELSE LET table_name == PyReplace(tokens[1], ";", "")
                               IN  IF PyIn(".", table_name) THEN Pass(q)
                                   ELSE IF PyLower(table_name) \in Range(lowered)
                                        THEN Pass(PyReplace(q, tokens[1],
                                                 permitted_schema \o "." \o table_name))
                                        ELSE Return(ErrorResult("Table " \o table_name
                                                        \o " is not permitted."))

TableCheck_FromRequired(q, allowed) == TableCheck_Variant(q, allowed, TRUE)

\* The permitted-table check and rewrite: Pass(statement to execute),
\* Return(error mapping), or Raise(exception) for an index out of range.
TableCheck(q, allowed) ==
    LET upper_sql        == PyUpper(q)
        permitted_schema == allowed.schema
        lowered          == LoweredTables(allowed)
    IN  IF ~PyIn("FROM", upper_sql) THEN Pass(q)
        ELSE LET parts == PySplit1(q, "FROM")
             IN  IF Len(parts) < 2 THEN Raise("IndexError")
                 ELSE LET after_from == PyStrip(parts[2])
                          tokens     == PySplit(after_from)
                      IN  IF tokens = <<>> THEN Raise("IndexError")
                          ELSE LET table_name == PyReplace(tokens[1], ";", "")
                               IN  IF PyIn(".", table_name) THEN Pass(q)
                                   ELSE IF PyLower(table_name) \in Range(lowered)
                                        THEN Pass(PyReplace(q, tokens[1],
                                                 permitted_schema \o "." \o table_name))
                                        ELSE Return(ErrorResult("Table " \o table_name
                                                        \o " is not permitted."))


-----------------------------------------------------------------------------
(* nlp_to_sql: the structured query builder *)

\* None, as dict.get returns it for a missing key
PyNone == "<None>"

\* d.get(k, default) of a mapping
Get(d, k, default) == IF k \in DOMAIN d THEN d[k] ELSE default

Digits == "0123456789"

\* str(n) of an integer
RECURSIVE PyStr(_)
PyStr(n) ==
    IF n < 0 THEN "-" \o PyStr(0 - n)
    ELSE IF n < 10 THEN Char(Digits, n + 1)
         ELSE PyStr(n \div 10) \o Char(Digits, (n % 10) + 1)

\* the limit nlp_to_sql uses when the request names none
nlp_default_limit == 10

\* tools.schemas.get(table, {}).get("columns", []), names only
SchemaCols(catalog, table) ==
    IF \E i \in DOMAIN catalog : catalog[i].name = table
    THEN catalog[CHOOSE i \in DOMAIN catalog : catalog[i].name = table].columns
    ELSE <<>>

\* Variants of the builder: the columns test made before the table test;
\* the last invalid column named instead of the first; the WHERE parts
\* joined by a comma; the table written without the schema prefix.
BuildSql_Variant(structured_input, catalog, columns_first, last_invalid, where_sep,
                 schema_prefix) ==
    LET table   == Get(structured_input, "table", PyNone)
        columns == Get(structured_input, "columns", <<"*">>)
        limit   == Get(structured_input, "limit", nlp_default_limit)
        filters == Get(structured_input, "filters", <<>>)
        no_table   == table = PyNone \/ table = ""
        no_columns == columns = <<>> \/ columns = <<"*">>
    IN  IF (IF columns_first THEN no_columns ELSE no_table)
        THEN Return(ErrorResult(IF columns_first THEN "Columns cannot be empty."
                                ELSE "Table is missing."))
        ELSE IF (IF columns_first THEN no_table ELSE no_columns)
        THEN Return(ErrorResult(IF columns_first THEN "Table is missing."
                                ELSE "Columns cannot be empty."))
        ELSE
        LET where_parts  == [i \in DOMAIN filters |->
                                filters[i].col \o " = '" \o filters[i].val \o "'"]
            where_clause == IF filters # <<>>
                            THEN " WHERE " \o PyJoin(where_sep, where_parts)
                            ELSE ""
            sql          == "SELECT " \o PyJoin(", ", columns) \o " FROM "
                               \o schema_prefix \o table \o where_clause
                               \o " LIMIT " \o PyStr(limit) \o ";"
            invalid      == {i \in DOMAIN columns :
                                columns[i] \notin Range(SchemaCols(catalog, table))}
        IN  IF invalid # {}
            THEN Return(ErrorResult("Invalid column '"
                            \o columns[IF last_invalid THEN Max(invalid)
                                       ELSE Min(invalid)]
                            \o "' for table '" \o table \o "'"))
            ELSE Pass(sql)

BuildSql_ColumnsFirst(structured_input, catalog) ==
    BuildSql_Variant(structured_input, catalog, TRUE, FALSE, " AND ", "platinum.")

BuildSql_LastInvalid(structured_input, catalog) ==
    BuildSql_Variant(structured_input, catalog, FALSE, TRUE, " AND ", "platinum.")

BuildSql_CommaFilters(structured_input, catalog) ==
    BuildSql_Variant(structured_input, catalog, FALSE, FALSE, ", ", "platinum.")

BuildSql_Unqualified(structured_input, catalog) ==
    BuildSql_Variant(structured_input, catalog, FALSE, FALSE, " AND ", "")

\* nlp_to_sql up to its last line: Return(error mapping), or
\* Pass(the SQL it hands to run_sql_query)
BuildSql(structured_input, catalog) ==
    LET table   == Get(structured_input, "table", PyNone)
        columns == Get(structured_input, "columns", <<"*">>)
        limit   == Get(structured_input, "limit", nlp_default_limit)
        filters == Get(structured_input, "filters", <<>>)
    IN  IF table = PyNone \/ table = ""
        THEN Return(ErrorResult("Table is missing."))
        ELSE IF columns = <<>> \/ columns = <<"*">>
        THEN Return(ErrorResult("Columns cannot be empty."))
        ELSE
        LET full_table   == "platinum." \o table
            where_parts  == [i \in DOMAIN filters |->
                                filters[i].col \o " = '" \o filters[i].val \o "'"]
            where_clause == IF filters # <<>>
                            THEN " WHERE " \o PyJoin(" AND ", where_parts)
                            ELSE ""
            sql          == "SELECT " \o PyJoin(", ", columns) \o " FROM "
                               \o full_table \o where_clause
                               \o " LIMIT " \o PyStr(limit) \o ";"
            schema_cols  == SchemaCols(catalog, table)
            invalid      == {i \in DOMAIN columns :
                                columns[i] \notin Range(schema_cols)}
        IN  IF invalid # {}
            THEN Return(ErrorResult("Invalid column '" \o columns[Min(invalid)]
                            \o "' for table '" \o table \o "'"))
            ELSE Pass(sql)

-----------------------------------------------------------------------------
(* safe_nl_query: the natural-language wrapper *)

\* the limit safe_nl_query uses when the prompt names none
default_limit == 10

WordChars == {Char(LowerAlpha, i) : i \in 1..26} \cup {Char(UpperAlpha, i) : i \in 1..26}
                \cup {Char(Digits, i) : i \in 1..10} \cup {"_"}
DigitChars == {Char(Digits, i) : i \in 1..10}

\* int(digits)
RECURSIVE PyInt(_)
PyInt(ds) ==
    IF ds = "" THEN 0
    ELSE 10 * PyInt(SubSeq(ds, 1, Len(ds) - 1))
           + ((CHOOSE k \in 1..10 : Char(Digits, k) = Char(ds, Len(ds))) - 1)

\* whether \blimit\s+(\d+)\b matches s at position i
LimitMatchesAt(s, i) ==
    LET w == RunLen(s, i + 5, Whitespace)
        d == RunLen(s, i + 5 + w, DigitChars)
    IN  /\ SubSeq(s, i, i + 4) = "limit"
        /\ (i = 1 \/ Char(s, i - 1) \notin WordChars)
        /\ w >= 1
        /\ d >= 1
        /\ (i + 5 + w + d > Len(s) \/ Char(s, i + 5 + w + d) \notin WordChars)

\* re.search(r"\blimit\s+(\d+)\b", s): group(1) of the leftmost match, or
\* PyNone
LimitSearch(s) ==
    LET at == {i \in 1..(Len(s) - 4) : LimitMatchesAt(s, i)}
    IN  IF at = {} THEN PyNone
        ELSE LET i == Min(at)
                 w == RunLen(s, i + 5, Whitespace)
                 d == RunLen(s, i + 5 + w, DigitChars)
             IN  SubSeq(s, i + 5 + w, i + 4 + w + d)

\* Variants of the wrapper: the last matching table taken instead of the
\* first; no test for a table without columns; the limit searched in the
\* prompt as it is written.
ResolvePrompt_Variant(user_prompt, catalog, pick_last, skip_schema_test, raw_limit) ==
    LET tables_list  == database_permitted_tables(catalog).tables
        lower_prompt == PyLower(user_prompt)
        matches      == {i \in DOMAIN tables_list :
                            PyIn(PyLower(tables_list[i]), lower_prompt)}
        table_found  == IF matches = {} THEN PyNone
                        ELSE tables_list[IF pick_last THEN Max(matches)
                                         ELSE Min(matches)]
    IN  IF table_found = PyNone \/ table_found = ""
        THEN Return(ErrorResult("No permitted table found in prompt."))
        ELSE
        LET schema_cols       == SchemaCols(catalog, table_found)
            requested_columns == SelectSeq(schema_cols,
                                    LAMBDA col : PyIn(PyLower(col), lower_prompt))
            limit_match       == LimitSearch(IF raw_limit THEN user_prompt
                                             ELSE lower_prompt)
            limit             == IF limit_match # PyNone THEN PyInt(limit_match)
                                 ELSE default_limit
        IN  IF schema_cols = <<>> /\ ~skip_schema_test
            THEN Return(ErrorResult("No schema found for table "
                            \o table_found \o "."))
            ELSE IF requested_columns = <<>>
            THEN Return(ErrorResult(
                    "No valid columns found in prompt. Please specify valid columns."))
            ELSE Pass([table |-> table_found, columns |-> requested_columns,
                       limit |-> limit, filters |-> <<>>])

ResolvePrompt_LastMatch(user_prompt, catalog) ==
    ResolvePrompt_Variant(user_prompt, catalog, TRUE, FALSE, FALSE)

ResolvePrompt_NoSchemaTest(user_prompt, catalog) ==
    ResolvePrompt_Variant(user_prompt, catalog, FALSE, TRUE, FALSE)

ResolvePrompt_RawLimit(user_prompt, catalog) ==
    ResolvePrompt_Variant(user_prompt, catalog, FALSE, FALSE, TRUE)

\* safe_nl_query up to its last line: Return(error mapping), or
\* Pass(the structured input it hands to nlp_to_sql)
ResolvePrompt(user_prompt, catalog) ==
    LET tables_list == database_permitted_tables(catalog).tables
        lower_prompt     == PyLower(user_prompt)
        matches          == {i \in DOMAIN tables_list :
                                PyIn(PyLower(tables_list[i]), lower_prompt)}
        table_found      == IF matches = {} THEN PyNone
                            ELSE tables_list[Min(matches)]
    IN  IF table_found = PyNone \/ table_found = ""
        THEN Return(ErrorResult("No permitted table found in prompt."))
        ELSE
        LET schema_cols       == SchemaCols(catalog, table_found)
            requested_columns == SelectSeq(schema_cols,
                                    LAMBDA col : PyIn(PyLower(col), lower_prompt))
            limit_match       == LimitSearch(lower_prompt)
            limit             == IF limit_match # PyNone THEN PyInt(limit_match)
                                 ELSE default_limit
        IN  IF schema_cols = <<>>
            THEN Return(ErrorResult("No schema found for table "
                            \o table_found \o "."))
            ELSE IF requested_columns = <<>>
            THEN Return(ErrorResult(
                    "No valid columns found in prompt. Please specify valid columns."))
            ELSE Pass([table |-> table_found, columns |-> requested_columns,
                       limit |-> limit, filters |-> <<>>])

-----------------------------------------------------------------------------
(* The database, as the code sees it *)

\* str(e) of the exceptions create_engine, engine.connect and conn.execute
\* can raise: a missing driver, an unreachable server, a statement the
\* database refuses.
EngineFaults  == {"Can't load plugin: sqlalchemy.dialects:redshift.psycopg2"}
ConnectFaults == {"connection to server at host.docker.internal failed"}
ExecuteFaults == {"syntax error at or near", "permission denied for relation"}

\* A result row is a sequence of (column, value) pairs; the result sets the
\* database may answer with.
ResultSets ==
    { <<>>,
      << <<[col |-> "store_id", val |-> 7], [col |-> "order_id", val |-> 3]>> >> }

\* dict(row._mapping)
RowDict(row) ==
    [c \in {row[i].col : i \in DOMAIN row} |->
        row[CHOOSE i \in DOMAIN row : row[i].col = c].val]

\* [dict(row._mapping) for row in result.fetchall()]
RowDicts(rs) == [i \in DOMAIN rs |-> RowDict(rs[i])]

\* [row[0] for row in result]
FirstColumn(rs) == [i \in DOMAIN rs |-> rs[i][1].val]

-----------------------------------------------------------------------------
(* Raw SQL statements a caller may pass *)

SqlWords ==
    { "", "SELECT", "select", "FROM", "from", "DROP", "alter",
      "api__analytics__orders", "API__ANALYTICS__ORDERS;",
      "droapi__analytics__orders", "secret", "other.secret" }

\* the statements of at most MaxWords words, single-space separated
Statements ==
    UNION { {PyJoin(" ", ws) : ws \in [1..n -> SqlWords]} : n \in 0..MaxWords }

-----------------------------------------------------------------------------
(* Structured requests and prompts a caller may pass *)

Seqs(S, n) == UNION {[1..k -> S] : k \in 0..n}

RequestTables  == {"", "api__analytics__orders", "api__analytics__affiliates",
                   "secret"}
RequestColumns == {"*", "order_id", "order_created_at_date", "bogus"}
RequestFilters ==
    { <<>>,
      <<[col |-> "order_id", val |-> "7"]>>,
      <<[col |-> "order_id", val |-> "7"], [col |-> "bogus", val |-> "x"]>> }

\* the request of the builder's usage scenario
ScenarioRequests ==
    { [table |-> "api__analytics__summery",
       columns |-> <<"store_id", "activity_date">>,
       filters |-> <<>>, limit |-> 3] }

\* a request for the column whose name contains `from`
FromColumnRequests ==
    { [table |-> "api__analytics__summery",
       columns |-> <<"orders_from_automated_discounts_count">>,
       limit |-> 3] }

\* every key of a structured request is optional
StructuredInputs ==
    { t @@ c @@ l @@ f :
        t \in {<<>>} \cup {("table" :> x)   : x \in RequestTables},
        c \in {<<>>} \cup {("columns" :> x) : x \in Seqs(RequestColumns, MaxColumns)},
        l \in {<<>>} \cup {("limit" :> x)   : x \in 0..MaxLimit},
        f \in {<<>>} \cup {("filters" :> x) : x \in RequestFilters} }
    \cup ScenarioRequests \cup FromColumnRequests

Phrases ==
    { "api__analytics__orders", "api__analytics__orders_marketplace_stores",
      "API__ANALYTICS__STORE_TOKEN", "api__analytics__affiliates",
      "order_id", "Order_Created_At_Date", "store_id",
      "limit 3", "LIMIT  0", "limit 12x" }

\* the prompts of at most MaxPhrases phrases, single-space separated
Prompts ==
    UNION { {PyJoin(" ", ws) : ws \in [1..n -> Phrases]} : n \in 0..MaxPhrases }

-----------------------------------------------------------------------------
(* Entry and exit of a call *)

\* a caller invokes entry point f on a free request slot
Enter(p, f, at, up, si, q) ==
    /\ pc'       = [pc EXCEPT ![p] = at]
    /\ fn'       = [fn EXCEPT ![p] = f]
    /\ prompt'   = [prompt EXCEPT ![p] = up]
    /\ request'  = [request EXCEPT ![p] = si]
    /\ sql_arg'  = [sql_arg EXCEPT ![p] = q]
    /\ query'    = [query EXCEPT ![p] = q]
    /\ UNCHANGED <<schemas, engines, events, tables, permitted_tables, result, vetted, db>>

\* the call leaves the entry point: a value is returned or an exception
\* propagates to the caller
Leave(p, r) ==
    /\ result' = [result EXCEPT ![p] = r]
    /\ pc'     = [pc EXCEPT ![p] = "done"]

Goto(p, at) == pc' = [pc EXCEPT ![p] = at]

\* the caller has taken the result; the call's frame is gone and the slot
\* is free for the next request
Collect(p) ==
    /\ pc[p] = "done"
    /\ pc'       = [pc EXCEPT ![p] = "idle"]
    /\ fn'       = [fn EXCEPT ![p] = ""]
    /\ prompt'   = [prompt EXCEPT ![p] = ""]
    /\ request'  = [request EXCEPT ![p] = <<>>]
    /\ sql_arg'  = [sql_arg EXCEPT ![p] = PyNone]
    /\ query'    = [query EXCEPT ![p] = ""]
    /\ permitted_tables' = [permitted_tables EXCEPT ![p] = <<>>]
    /\ result'   = [result EXCEPT ![p] = Pending]
    /\ vetted'   = [vetted EXCEPT ![p] = {}]
    /\ executed' = [executed EXCEPT ![p] = <<>>]
    /\ opened'   = [opened EXCEPT ![p] = 0]
    /\ open'     = [open EXCEPT ![p] = 0]
    /\ fault'    = [fault EXCEPT ![p] = ""]
    /\ rows'     = [rows EXCEPT ![p] = <<>>]
    /\ events'   = [events EXCEPT ![p] = <<>>]
    /\ tables'   = [tables EXCEPT ![p] = <<>>]
    /\ engine'   = [engine EXCEPT ![p] = 0]
    /\ conn_engine' = [conn_engine EXCEPT ![p] = 0]
    /\ UNCHANGED <<schemas, self_engine>>

-----------------------------------------------------------------------------
(* Tools.get_tables_schema *)

\* t.split(".")[-1]
LastSegment(t) ==
    LET dots == Occurrences(t, ".")
    IN  IF dots = {} THEN t ELSE SubSeq(t, Max(dots) + 1, Len(t))

\* self.schemas[key]: the entry of the catalog under that key
SchemaEntry(catalog, key) ==
    LET e == catalog[CHOOSE i \in DOMAIN catalog : catalog[i].name = key]
    IN  [columns |-> e.columns]

\* Variant: the name is looked up as it is written, prefix included.
SchemaLookup_NoStrip(names, catalog) ==
    LET found == {names[i] : i \in DOMAIN names} \cap Range(Keys(catalog))
    IN  IF found = {} THEN ErrorResult("No matching tables found")
        ELSE [key \in found |-> SchemaEntry(catalog, key)]

\* Variant: an empty result is returned as it is.
SchemaLookup_EmptySuccess(names, catalog) ==
    LET found == {LastSegment(names[i]) : i \in DOMAIN names}
                    \cap Range(Keys(catalog))
    IN  [key \in found |-> SchemaEntry(catalog, key)]

\* The loop over the names and the test that follows it: the mapping
\* key -> catalog entry, or the error mapping when nothing was found
SchemaLookup(names, catalog) ==
    LET found == {LastSegment(names[i]) : i \in DOMAIN names}
                    \cap Range(Keys(catalog))
    IN  IF found = {} THEN ErrorResult("No matching tables found")
        ELSE [key \in found |-> SchemaEntry(catalog, key)]

\* names a caller may ask for
LookupNames ==
    { "", "api__analytics__orders", "platinum.api__analytics__orders",
      "a.b.api__analytics__summery", "api__analytics__summery.",
      "API__ANALYTICS__REFUNDS", "secret", "other.secret" }

get_tables_schema(p) ==
    /\ pc[p] = "idle"
    /\ \E names \in Seqs(LookupNames, MaxNames) :
          /\ tables' = [tables EXCEPT ![p] = names]
          /\ fn'     = [fn EXCEPT ![p] = "get_tables_schema"]
          /\ Goto(p, "gts_body")
    /\ UNCHANGED <<schemas, engines, events, prompt, request, sql_arg, query,
                   permitted_tables, result, vetted, db>>

\* result = {}; for t in tables: ...; if not result: ...; return result
gts_body(p) ==
    /\ pc[p] = "gts_body"
    /\ Leave(p, Return(SchemaLookup(tables[p], schemas)))
    /\ UNCHANGED <<schemas, engines, events, args, query, vetted, db>>

-----------------------------------------------------------------------------
(* Tools.run_sql_query *)

run_sql_query(p) ==
    /\ pc[p] = "idle"
    /\ \E q \in Statements :
          Enter(p, "run_sql_query", "rsq_mutation", "", <<>>, q)

\* Variant: engine = get_db_connection() is the first line of the function,
\* ahead of the blacklist loop.
rsq_mutation_EngineFirst(p) ==
    /\ pc[p] = "rsq_mutation"
    /\ engine' = [engine EXCEPT ![p] = p]
    /\ LET keyword == BlockedKeyword(query[p])
       IN  IF keyword # ""
           THEN Leave(p, Return(ErrorResult(
                    "Query contains blacklisted keyword: " \o keyword)))
           ELSE /\ Goto(p, "rsq_table")
                /\ UNCHANGED result
    /\ UNCHANGED <<schemas, self_engine, conn_engine, events, args, query,
                   vetted, db>>

\* the blacklist loop
rsq_mutation(p) ==
    /\ pc[p] = "rsq_mutation"
    /\ LET keyword == BlockedKeyword(query[p])
       IN  IF keyword # ""
           THEN Leave(p, Return(ErrorResult(
                    "Query contains blacklisted keyword: " \o keyword)))
           ELSE /\ Goto(p, "rsq_table")
                /\ UNCHANGED result
    /\ UNCHANGED <<schemas, engines, events, args, query, vetted, db>>

\* the permitted-table check and the schema-prefix rewrite
rsq_table(p) ==
    /\ pc[p] = "rsq_table"
    /\ LET allowed == database_permitted_tables(schemas)
           r       == TableCheck(query[p], allowed)
       IN  /\ permitted_tables' =
                  [permitted_tables EXCEPT ![p] = LoweredTables(allowed)]
           /\ IF r.kind = "pass"
              THEN /\ query'  = [query EXCEPT ![p] = r.query]
                   /\ vetted' = [vetted EXCEPT ![p] = @ \cup {r.query}]
                   /\ Goto(p, "rsq_engine")
                   /\ UNCHANGED result
              ELSE /\ Leave(p, r)
                   /\ UNCHANGED <<query, vetted>>
    /\ UNCHANGED <<schemas, engines, events, tables, fn, prompt, request, sql_arg, db>>

\* engine = get_db_connection(), outside the try
rsq_engine(p) ==
    /\ pc[p] = "rsq_engine"
    /\ \/ /\ engine' = [engine EXCEPT ![p] = p]
          /\ Goto(p, "rsq_connect")
          /\ UNCHANGED result
       \/ /\ \E e \in EngineFaults : Leave(p, Raise(e))
          /\ UNCHANGED engine
    /\ UNCHANGED <<schemas, self_engine, conn_engine, events, args, query,
                   vetted, db>>

\* with engine.connect() as conn
rsq_connect(p) ==
    /\ pc[p] = "rsq_connect"
    /\ \/ /\ opened' = [opened EXCEPT ![p] = @ + 1]
          /\ open'   = [open EXCEPT ![p] = @ + 1]
          /\ conn_engine' = [conn_engine EXCEPT ![p] = engine[p]]
          /\ Goto(p, "rsq_execute")
          /\ UNCHANGED fault
       \/ /\ \E e \in ConnectFaults : fault' = [fault EXCEPT ![p] = e]
          /\ Goto(p, "rsq_except")
          /\ UNCHANGED <<opened, open, conn_engine>>
    /\ UNCHANGED <<schemas, engine, self_engine, events, args, query, result, vetted, executed, rows>>

\* result = conn.execute(text(query)); rows = [dict(...) for row in fetchall()]
rsq_execute(p) ==
    /\ pc[p] = "rsq_execute"
    /\ executed' = [executed EXCEPT ![p] = Append(@, query[p])]
    /\ \/ /\ \E rs \in ResultSets : rows' = [rows EXCEPT ![p] = RowDicts(rs)]
          /\ UNCHANGED fault
       \/ /\ \E e \in ExecuteFaults : fault' = [fault EXCEPT ![p] = e]
          /\ UNCHANGED rows
    /\ Goto(p, "rsq_exit")
    /\ UNCHANGED <<schemas, engines, events, args, query, result, vetted, opened, open>>

\* Variant: no with block; conn.close() follows the fetch, so an exception
\* skips it.
rsq_exit_LeakOnError(p) ==
    /\ pc[p] = "rsq_exit"
    /\ open' = [open EXCEPT ![p] = IF fault[p] = "" THEN @ - 1 ELSE @]
    /\ Goto(p, IF fault[p] = "" THEN "rsq_return" ELSE "rsq_except")
    /\ UNCHANGED <<schemas, engines, events, args, query, result, vetted, executed, opened,
                   fault, rows>>

\* the with block exits, normally or by the exception: the connection closes
rsq_exit(p) ==
    /\ pc[p] = "rsq_exit"
    /\ open' = [open EXCEPT ![p] = @ - 1]
    /\ Goto(p, IF fault[p] = "" THEN "rsq_return" ELSE "rsq_except")
    /\ UNCHANGED <<schemas, engines, events, args, query, result, vetted, executed, opened,
                   fault, rows>>

\* return {"rows": rows}
rsq_return(p) ==
    /\ pc[p] = "rsq_return"
    /\ Leave(p, Return(RowsResult(rows[p])))
    /\ UNCHANGED <<schemas, engines, events, args, query, vetted, db>>

\* except Exception as e: return {"error": "could not connect to server"}
rsq_except(p) ==
    /\ pc[p] = "rsq_except"
    /\ Leave(p, Return(ErrorResult("could not connect to server")))
    /\ UNCHANGED <<schemas, engines, events, args, query, vetted, db>>

-----------------------------------------------------------------------------
(* nlp_to_sql and safe_nl_query *)

nlp_to_sql(p) ==
    /\ pc[p] = "idle"
    /\ \E si \in StructuredInputs :
          Enter(p, "nlp_to_sql", "nlp_build", "", si, PyNone)

\* validation and SQL generation; on success the SQL goes to run_sql_query,
\* whose result is returned as it is
nlp_build(p) ==
    /\ pc[p] = "nlp_build"
    /\ LET r == BuildSql(request[p], schemas)
       IN  IF r.kind = "pass"
           THEN /\ sql_arg' = [sql_arg EXCEPT ![p] = r.query]
                /\ query'   = [query EXCEPT ![p] = r.query]
                /\ Goto(p, "rsq_mutation")
                /\ UNCHANGED result
           ELSE /\ Leave(p, r)
                /\ UNCHANGED <<sql_arg, query>>
    /\ UNCHANGED <<schemas, engines, events, tables, fn, prompt, request, permitted_tables, vetted, db>>

safe_nl_query(p) ==
    /\ pc[p] = "idle"
    /\ \E up \in Prompts :
          Enter(p, "safe_nl_query", "nl_resolve", up, <<>>, PyNone)

\* table, column and limit extraction; on success the structured input goes
\* to nlp_to_sql, whose result is returned as it is
nl_resolve(p) ==
    /\ pc[p] = "nl_resolve"
    /\ LET r == ResolvePrompt(prompt[p], schemas)
       IN  IF r.kind = "pass"
           THEN /\ request' = [request EXCEPT ![p] = r.query]
                /\ Goto(p, "nlp_build")
                /\ UNCHANGED result
           ELSE /\ Leave(p, r)
                /\ UNCHANGED request
    /\ UNCHANGED <<schemas, engines, events, tables, fn, prompt, sql_arg, query, permitted_tables, vetted, db>>

-----------------------------------------------------------------------------
(* Tools.query_redshift of redshift_query_tool.py *)

\* the statements passed to the raw tool: it reads nothing of the text, so
\* one-word statements stand for all
RawStatements == SqlWords

query_redshift(p) ==
    /\ pc[p] = "idle"
    /\ \E q \in RawStatements :
          Enter(p, "query_redshift", "qr_engine", "", <<>>, q)

\* engine = create_engine(self.connection_string), inside the try
qr_engine(p) ==
    /\ pc[p] = "qr_engine"
    /\ \/ /\ engine' = [engine EXCEPT ![p] = p]
          /\ Goto(p, "qr_connect")
          /\ UNCHANGED fault
       \/ /\ \E e \in EngineFaults : fault' = [fault EXCEPT ![p] = e]
          /\ Goto(p, "qr_except")
          /\ UNCHANGED engine
    /\ UNCHANGED <<schemas, self_engine, conn_engine, events, args, query, result, vetted, executed, opened,
                   open, rows>>

\* with engine.connect() as conn
qr_connect(p) ==
    /\ pc[p] = "qr_connect"
    /\ \/ /\ opened' = [opened EXCEPT ![p] = @ + 1]
          /\ open'   = [open EXCEPT ![p] = @ + 1]
          /\ conn_engine' = [conn_engine EXCEPT ![p] = engine[p]]
          /\ Goto(p, "qr_execute")
          /\ UNCHANGED fault
       \/ /\ \E e \in ConnectFaults : fault' = [fault EXCEPT ![p] = e]
          /\ Goto(p, "qr_except")
          /\ UNCHANGED <<opened, open, conn_engine>>
    /\ UNCHANGED <<schemas, engine, self_engine, events, args, query, result, vetted, executed, rows>>

\* result = conn.execute(text(query)); [row[0] for row in result]
qr_execute(p) ==
    /\ pc[p] = "qr_execute"
    /\ executed' = [executed EXCEPT ![p] = Append(@, query[p])]
    /\ \/ /\ \E rs \in ResultSets : rows' = [rows EXCEPT ![p] = FirstColumn(rs)]
          /\ UNCHANGED fault
       \/ /\ \E e \in ExecuteFaults : fault' = [fault EXCEPT ![p] = e]
          /\ UNCHANGED rows
    /\ Goto(p, "qr_exit")
    /\ UNCHANGED <<schemas, engines, events, args, query, result, vetted, opened, open>>

\* the with block exits: the connection closes
qr_exit(p) ==
    /\ pc[p] = "qr_exit"
    /\ open' = [open EXCEPT ![p] = @ - 1]
    /\ Goto(p, IF fault[p] = "" THEN "qr_return" ELSE "qr_except")
    /\ UNCHANGED <<schemas, engines, events, args, query, result, vetted, executed, opened,
                   fault, rows>>

\* return [row[0] for row in result]
qr_return(p) ==
    /\ pc[p] = "qr_return"
    /\ Leave(p, Return(rows[p]))
    /\ UNCHANGED <<schemas, engines, events, args, query, vetted, db>>

\* except Exception as e: return {"error": str(e)}
qr_except(p) ==
    /\ pc[p] = "qr_except"
    /\ Leave(p, Return(ErrorResult(fault[p])))
    /\ UNCHANGED <<schemas, engines, events, args, query, vetted, db>>

-----------------------------------------------------------------------------
(* Pipe.pipe of Text to SQL RAG.py *)

\* the last user message of the chat body
UserMessages == {"how many requests failed", "remove the summary table"}

\* response.response of the text-to-SQL query engine: whatever the language
\* model answered
LlmOutputs ==
    { "SQLQuery: SELECT status FROM api__analytics__summery",
      "SQLQuery:  DROP TABLE api__analytics__summery\nSQLResult: none",
      "SQLQuery: SELECT * FROM other.secret",
      "I cannot answer that." }

\* str(e) of what query_engine.query can raise
QueryFaults == {"429 Resource has been exhausted"}

\* re.search(r"SQLQuery:\s*(.*)", s): group(1) of the leftmost match, or
\* PyNone
SqlQuerySearch(s) ==
    LET i == PyFind(s, "SQLQuery:")
        w == RunLen(s, i + 9, Whitespace)
        d == RunLen(s, i + 9 + w, {Char(s, j) : j \in 1..Len(s)} \ {"\n"})
    IN  IF i = 0 THEN PyNone
        ELSE SubSeq(s, i + 9 + w, i + 8 + w + d)

\* str(t) of a result row, a tuple of integers
PyTupleStr(row) ==
    IF Len(row) = 1 THEN "(" \o PyStr(row[1].val) \o ",)"
    ELSE "(" \o PyJoin(", ", [i \in DOMAIN row |-> PyStr(row[i].val)]) \o ")"

\* str(rows) of result.fetchall()
PyRowsStr(rs) == "[" \o PyJoin(", ", [i \in DOMAIN rs |-> PyTupleStr(rs[i])]) \o "]"

\* await __event_emitter__({"type": "status", "data": {...}})
Emit(p, description, done) ==
    events' = [events EXCEPT ![p] =
                  Append(@, [description |-> description, done |-> done])]

pipe(p) ==
    /\ pc[p] = "idle"
    /\ \E um \in UserMessages :
          /\ pc'      = [pc EXCEPT ![p] = "pipe_connecting"]
          /\ fn'      = [fn EXCEPT ![p] = "pipe"]
          /\ prompt'  = [prompt EXCEPT ![p] = um]
    /\ UNCHANGED <<schemas, engines, tables, request, sql_arg, query, permitted_tables, result,
                   vetted, db, events>>

\* the first status event
pipe_connecting(p) ==
    /\ pc[p] = "pipe_connecting"
    /\ Emit(p, "Connecting to the database...", FALSE)
    /\ Goto(p, "pipe_init")
    /\ UNCHANGED <<schemas, engines, args, query, result, vetted, db>>

\* self.init_db_connection() and SQLDatabase(self.engine, ...), outside any
\* try: create_engine raises before self.engine is assigned, SQLDatabase
\* after it
pipe_init(p) ==
    /\ pc[p] = "pipe_init"
    /\ \/ /\ self_engine' = p
          /\ Goto(p, "pipe_querying")
          /\ UNCHANGED result
       \/ /\ \E e \in EngineFaults : Leave(p, Raise(e))
          /\ self_engine' \in {self_engine, p}
    /\ UNCHANGED <<schemas, engine, conn_engine, events, args, query, vetted, db>>

\* the second status event
pipe_querying(p) ==
    /\ pc[p] = "pipe_querying"
    /\ Emit(p, "Querying the database...", FALSE)
    /\ Goto(p, "pipe_returning")
    /\ UNCHANGED <<schemas, engines, args, query, result, vetted, db>>

\* the third status event, done = True, emitted before the query is made
pipe_returning(p) ==
    /\ pc[p] = "pipe_returning"
    /\ Emit(p, "Returning response...", TRUE)
    /\ Goto(p, "pipe_query")
    /\ UNCHANGED <<schemas, engines, args, query, result, vetted, db>>

\* response = query_engine.query(user_message); the search for SQLQuery:
pipe_query(p) ==
    /\ pc[p] = "pipe_query"
    /\ \/ \E llm_output \in LlmOutputs :
             LET generated_sql == SqlQuerySearch(llm_output)
             IN  IF generated_sql # PyNone
                 THEN /\ query' = [query EXCEPT ![p] = generated_sql]
                      /\ Goto(p, "pipe_connect")
                      /\ UNCHANGED result
                 ELSE /\ Leave(p, Return(PyNone))
                      /\ UNCHANGED query
       \/ /\ \E e \in QueryFaults : Leave(p, Raise(e))
          /\ UNCHANGED query
    /\ UNCHANGED <<schemas, engines, events, args, vetted, db>>

\* with self.engine.connect() as conn
pipe_connect(p) ==
    /\ pc[p] = "pipe_connect"
    /\ \/ /\ opened' = [opened EXCEPT ![p] = @ + 1]
          /\ open'   = [open EXCEPT ![p] = @ + 1]
          /\ conn_engine' = [conn_engine EXCEPT ![p] = self_engine]
          /\ Goto(p, "pipe_execute")
          /\ UNCHANGED <<result, fault>>
       \/ /\ \E e \in ConnectFaults :
                /\ fault' = [fault EXCEPT ![p] = e]
                /\ Leave(p, Raise(e))
          /\ UNCHANGED <<opened, open, conn_engine>>
    /\ UNCHANGED <<schemas, engine, self_engine, events, args, query, vetted, executed, rows>>

\* result = conn.execute(generated_sql); rows = result.fetchall()
pipe_execute(p) ==
    /\ pc[p] = "pipe_execute"
    /\ executed' = [executed EXCEPT ![p] = Append(@, query[p])]
    /\ \/ /\ \E rs \in ResultSets : rows' = [rows EXCEPT ![p] = rs]
          /\ UNCHANGED fault
       \/ /\ \E e \in ExecuteFaults : fault' = [fault EXCEPT ![p] = e]
          /\ UNCHANGED rows
    /\ Goto(p, "pipe_exit")
    /\ UNCHANGED <<schemas, engines, events, args, query, result, vetted, opened, open>>

\* the with block exits: the connection closes; the exception, if any, goes
\* on to the caller
pipe_exit(p) ==
    /\ pc[p] = "pipe_exit"
    /\ open' = [open EXCEPT ![p] = @ - 1]
    /\ IF fault[p] = ""
       THEN Leave(p, Return("Generated SQL: " \o query[p]
                               \o "\nResult from DB: " \o PyRowsStr(rows[p])))
       ELSE Leave(p, Raise(fault[p]))
    /\ UNCHANGED <<schemas, engines, events, args, query, vetted, executed, opened,
                   fault, rows>>

-----------------------------------------------------------------------------
(* database_permitted_tables as an entry point *)

permitted_tables_call(p) ==
    /\ pc[p] = "idle"
    /\ Enter(p, "database_permitted_tables", "dpt_body", "", <<>>, PyNone)

\* Variant: the names are taken out of the catalog with popitem() instead of
\* being read from keys(), which leaves the catalog empty.
dpt_body_Popitem(p) ==
    /\ pc[p] = "dpt_body"
    /\ Leave(p, Return(database_permitted_tables(schemas)))
    /\ schemas' = <<>>
    /\ UNCHANGED <<engines, events, args, query, vetted, db>>

\* tables = list(schemas.keys()); return {...}
dpt_body(p) ==
    /\ pc[p] = "dpt_body"
    /\ Leave(p, Return(database_permitted_tables(schemas)))
    /\ UNCHANGED <<schemas, engines, events, args, query, vetted, db>>

-----------------------------------------------------------------------------
(* Edits of the catalog: `schemas` is a module-level dict, so an entry can  *)
(* be added to it or deleted from it while the process runs                *)

\* an entry of the catalog at load that an edit removes or puts back, an
\* entry of the source that the reduced catalog leaves out, and a new entry
\* whose key is written in upper case
EditableEntries ==
    { [name |-> "api__analytics__orders",
       columns |-> <<"order_id", "order_created_at_date">>],
      [name |-> "api__analytics__visits",
       columns |-> <<"id", "store_id">>],
      [name |-> "API__ANALYTICS__REFUNDS",
       columns |-> <<"refund_id">>] }

\* schemas[name] = {...} for a new key: the entry goes to the end
AddTable(e) ==
    /\ e.name \notin Range(Keys(schemas))
    /\ schemas' = Append(schemas, e)
    /\ UNCHANGED <<pc, engines, args, query, result, vetted, db, events>>

\* del schemas[name]
RemoveTable(e) ==
    /\ e.name \in Range(Keys(schemas))
    /\ schemas' = SelectSeq(schemas, LAMBDA x : x.name # e.name)
    /\ UNCHANGED <<pc, engines, args, query, result, vetted, db, events>>

\* statements naming the tables that edits add and remove
EditProbes ==
    { "SELECT order_id FROM api__analytics__orders",
      "SELECT id FROM api__analytics__visits;",
      "SELECT refund_id FROM api__analytics__refunds",
      "SELECT store_id FROM api__analytics__summery" }

run_sql_query_probe(p) ==
    /\ pc[p] = "idle"
    /\ \E q \in EditProbes :
          Enter(p, "run_sql_query", "rsq_mutation", "", <<>>, q)

-----------------------------------------------------------------------------
(* Specification *)

Init ==
    /\ schemas  = CatalogAtLoad
    /\ pc       = [p \in Procs |-> "idle"]
    /\ fn       = [p \in Procs |-> ""]
    /\ prompt   = [p \in Procs |-> ""]
    /\ request  = [p \in Procs |-> <<>>]
    /\ sql_arg  = [p \in Procs |-> PyNone]
    /\ query    = [p \in Procs |-> ""]
    /\ permitted_tables = [p \in Procs |-> <<>>]
    /\ result   = [p \in Procs |-> Pending]
    /\ vetted   = [p \in Procs |-> {}]
    /\ executed = [p \in Procs |-> <<>>]
    /\ opened   = [p \in Procs |-> 0]
    /\ open     = [p \in Procs |-> 0]
    /\ fault    = [p \in Procs |-> ""]
    /\ rows     = [p \in Procs |-> <<>>]
    /\ events   = [p \in Procs |-> <<>>]
    /\ tables   = [p \in Procs |-> <<>>]
    /\ engine   = [p \in Procs |-> 0]
    /\ self_engine = 0
    /\ conn_engine = [p \in Procs |-> 0]

Next ==
    \E p \in Procs :
        \/ run_sql_query(p)
        \/ rsq_mutation(p)
        \/ rsq_table(p)
        \/ rsq_engine(p)
        \/ rsq_connect(p)
        \/ rsq_execute(p)
        \/ rsq_exit(p)
        \/ rsq_return(p)
        \/ rsq_except(p)
        \/ permitted_tables_call(p)
        \/ dpt_body(p)
        \/ get_tables_schema(p)
        \/ gts_body(p)
        \/ nlp_to_sql(p)
        \/ nlp_build(p)
        \/ safe_nl_query(p)
        \/ nl_resolve(p)
        \/ query_redshift(p)
        \/ qr_engine(p)
        \/ qr_connect(p)
        \/ qr_execute(p)
        \/ qr_exit(p)
        \/ qr_return(p)
        \/ qr_except(p)
        \/ Collect(p)

Spec == Init /\ [][Next]_vars

\* the same calls, on the probe statements, while the catalog is edited
NextEdits ==
    \/ \E e \in EditableEntries : AddTable(e)
    \/ \E e \in EditableEntries : RemoveTable(e)
    \/ \E p \in Procs :
        \/ permitted_tables_call(p)
        \/ dpt_body(p)
        \/ get_tables_schema(p)
        \/ gts_body(p)
        \/ run_sql_query_probe(p)
        \/ rsq_mutation(p)
        \/ rsq_table(p)
        \/ rsq_engine(p)
        \/ rsq_connect(p)
        \/ rsq_execute(p)
        \/ rsq_exit(p)
        \/ rsq_return(p)
        \/ rsq_except(p)
        \/ Collect(p)

SpecEdits == Init /\ [][NextEdits]_vars

\* the structured builder and the natural-language wrapper alone, with the
\* guard and the execution they hand over to
NextRequests ==
    \E p \in Procs :
        \/ nlp_to_sql(p)
        \/ nlp_build(p)
        \/ safe_nl_query(p)
        \/ nl_resolve(p)
        \/ rsq_mutation(p)
        \/ rsq_table(p)
        \/ rsq_engine(p)
        \/ rsq_connect(p)
        \/ rsq_execute(p)
        \/ rsq_exit(p)
        \/ rsq_return(p)
        \/ rsq_except(p)
        \/ Collect(p)

SpecRequests == Init /\ [][NextRequests]_vars

\* overlapping requests: the pipe is an async method of one Pipe object, and
\* the toolkit's run_sql_query is called from as many threads as there are
\* requests
NextConcurrent ==
    \E p \in Requests :
        \/ pipe(p)
        \/ pipe_connecting(p)
        \/ pipe_init(p)
        \/ pipe_querying(p)
        \/ pipe_returning(p)
        \/ pipe_query(p)
        \/ pipe_connect(p)
        \/ pipe_execute(p)
        \/ pipe_exit(p)
        \/ run_sql_query_probe(p)
        \/ rsq_mutation(p)
        \/ rsq_table(p)
        \/ rsq_engine(p)
        \/ rsq_connect(p)
        \/ rsq_execute(p)
        \/ rsq_exit(p)
        \/ rsq_return(p)
        \/ rsq_except(p)
        \/ Collect(p)

\* the state after construction, with room for overlapping requests
InitConcurrent ==
    /\ schemas  = CatalogAtLoad
    /\ pc       = [p \in Requests |-> "idle"]
    /\ fn       = [p \in Requests |-> ""]
    /\ prompt   = [p \in Requests |-> ""]
    /\ request  = [p \in Requests |-> <<>>]
    /\ sql_arg  = [p \in Requests |-> PyNone]
    /\ query    = [p \in Requests |-> ""]
    /\ permitted_tables = [p \in Requests |-> <<>>]
    /\ result   = [p \in Requests |-> Pending]
    /\ vetted   = [p \in Requests |-> {}]
    /\ executed = [p \in Requests |-> <<>>]
    /\ opened   = [p \in Requests |-> 0]
    /\ open     = [p \in Requests |-> 0]
    /\ fault    = [p \in Requests |-> ""]
    /\ rows     = [p \in Requests |-> <<>>]
    /\ events   = [p \in Requests |-> <<>>]
    /\ tables   = [p \in Requests |-> <<>>]
    /\ engine   = [p \in Requests |-> 0]
    /\ self_engine = 0
    /\ conn_engine = [p \in Requests |-> 0]

SpecConcurrent == InitConcurrent /\ [][NextConcurrent]_vars

-----------------------------------------------------------------------------
(* Vocabulary of the properties *)

ToolkitFns == {"run_sql_query", "nlp_to_sql", "safe_nl_query"}

\* run_sql_query has been entered by request p, directly or from the builder
InGuardedCall(p) == fn[p] \in ToolkitFns /\ sql_arg[p] # PyNone

HasKeyword(u) ==
    \E i \in DOMAIN blacklisted_keywords : PyIn(blacklisted_keywords[i], u)

\* the first keyword, in the order of the blacklist, that occurs in u
FirstKeywordIn(u) ==
    blacklisted_keywords[
        Min({i \in DOMAIN blacklisted_keywords : PyIn(blacklisted_keywords[i], u)})]

PassesMutationCheck(q) ==
    ~HasKeyword(PyUpper(q)) \/ PyStartsWith(PyUpper(q), "SELECT")

\* the key set of the catalog
CatalogKeys == {schemas[i].name : i \in DOMAIN schemas}

\* the whitespace-delimited token that follows the first FROM of the
\* upper-case form of q, less a trailing semicolon; PyNone when there is none
TokenAfterFrom(q) ==
    LET i    == PyFind(PyUpper(q), "FROM")
        toks == IF i = 0 THEN <<>> ELSE PySplit(SubSeq(q, i + 4, Len(q)))
    IN  IF toks = <<>> THEN PyNone
        ELSE IF Char(toks[1], Len(toks[1])) = ";"
             THEN SubSeq(toks[1], 1, Len(toks[1]) - 1)
             ELSE toks[1]

\* a table name with any schema prefix removed
Unqualified(t) ==
    LET dots == Occurrences(t, ".")
    IN  IF dots = {} THEN t ELSE SubSeq(t, Max(dots) + 1, Len(t))

Returned(p, v) == result[p] = [kind |-> "return", value |-> v]

-----------------------------------------------------------------------------
(* C1 - C10 *)

\* C1: every statement handed to conn.execute, by any entry point, has first
\* passed the guard's mutation check and permitted-table check.
C1_ExecutedOnlyAfterGuard ==
    \A p \in Procs :
        \A i \in DOMAIN executed[p] : executed[p][i] \in vetted[p]

\* C2: a statement whose upper-case form contains a blacklisted keyword and
\* does not start with SELECT is answered with the error naming the first
\* keyword, in blacklist order, that occurs in it, and is never executed.
C2_BlacklistedRejected ==
    \A p \in Procs :
        LET u == PyUpper(sql_arg[p])
        IN  (/\ InGuardedCall(p)
             /\ pc[p] # "rsq_mutation"
             /\ HasKeyword(u)
             /\ ~PyStartsWith(u, "SELECT"))
            => /\ pc[p] = "done"
               /\ Returned(p, [error |-> "Query contains blacklisted keyword: "
                                            \o FirstKeywordIn(u)])
               /\ executed[p] = <<>>

\* a statement with ALTER before DROP was rejected, naming DROP
C2_Witness ==
    \E p \in Procs :
        LET u == PyUpper(sql_arg[p])
        IN  /\ pc[p] = "done"
            /\ fn[p] = "run_sql_query"
            /\ PyIn("ALTER", u) /\ PyIn("DROP", u)
            /\ PyFind(u, "ALTER") < PyFind(u, "DROP")
            /\ Returned(p, [error |-> "Query contains blacklisted keyword: DROP"])

\* C3: a statement whose upper-case form starts with SELECT is never answered
\* with a blacklisted-keyword rejection, whatever keywords it contains.
C3_SelectNeverBlacklisted ==
    \A p \in Procs :
        (InGuardedCall(p) /\ PyStartsWith(PyUpper(sql_arg[p]), "SELECT"))
        => ~(/\ result[p].kind = "return"
             /\ "error" \in DOMAIN result[p].value
             /\ PyStartsWith(result[p].value.error,
                             "Query contains blacklisted keyword"))

\* a statement written `select ... DROP ...` was executed and returned rows
C3_Witness ==
    \E p \in Procs :
        /\ pc[p] = "done"
        /\ fn[p] = "run_sql_query"
        /\ PyStartsWith(sql_arg[p], "select")
        /\ PyIn("DROP", sql_arg[p])
        /\ executed[p] # <<>>
        /\ result[p].kind = "return"
        /\ DOMAIN result[p].value = {"rows"}

\* C4: for a statement that passes the mutation check and whose token after
\* the first FROM is unqualified: when the token, lower-cased, is a permitted
\* table, the statement the guard sends on contains platinum.<token>; when
\* it is not, the answer is "Table <token> is not permitted." and nothing is
\* executed.
C4_UnqualifiedTableResolved ==
    \A p \in Procs :
        LET token == TokenAfterFrom(sql_arg[p])
        IN  (/\ InGuardedCall(p)
             /\ pc[p] = "done"
             /\ PassesMutationCheck(sql_arg[p])
             /\ token # PyNone
             /\ ~PyIn(".", token))
            => IF PyLower(token) \in CatalogKeys
               THEN /\ vetted[p] # {}
                    /\ \A v \in vetted[p] : PyIn("platinum." \o token, v)
               ELSE /\ Returned(p, [error |-> "Table " \o token
                                                 \o " is not permitted."])
                    /\ executed[p] = <<>>

\* C5: every statement run_sql_query executes that contains FROM names, after
\* its first FROM and with any schema prefix removed, a table of the catalog.
C5_OnlyCatalogTablesExecuted ==
    \A p \in Procs :
        fn[p] \in ToolkitFns
        => \A i \in DOMAIN executed[p] :
              LET token == TokenAfterFrom(executed[p][i])
              IN  PyIn("FROM", PyUpper(executed[p][i]))
                  => /\ token # PyNone
                     /\ PyLower(Unqualified(token)) \in CatalogKeys

\* C6: run_sql_query, nlp_to_sql and safe_nl_query return a value for every
\* input; no exception reaches the caller.
C6_NeverRaises ==
    \A p \in Procs : fn[p] \in ToolkitFns => result[p].kind # "raise"

\* C7: whenever connecting or executing fails, whatever the fault, the caller
\* gets exactly {error: "could not connect to server"}, so no text of the
\* exception is in a returned value of any execution entry point.
C7_ExecutionFailureOpaque ==
    \A p \in Procs :
        (pc[p] = "done" /\ fault[p] # "")
        => Returned(p, [error |-> "could not connect to server"])

C9_ConnectionScoped ==
    \A p \in Procs :
        fn[p] \in ToolkitFns
        => /\ opened[p] <= 1
           /\ open[p] <= opened[p]
           /\ pc[p] \in {"rsq_return", "rsq_except", "done"} => open[p] = 0

\* execution raised on an open connection, and the call has returned
C9_Witness ==
    \E p \in Procs :
        /\ pc[p] = "done"
        /\ fn[p] = "run_sql_query"
        /\ opened[p] = 1
        /\ fault[p] \in ExecuteFaults
        /\ open[p] = 0

\* C10: whatever edits the catalog has seen, database_permitted_tables
\* returns database dev, schema platinum and the keys the catalog has at the
\* moment of the call, and the guard's permitted list, read in the same way
\* in its own call, holds those same names.
C10_PermittedTablesFresh ==
    [][\A p \in Procs :
          /\ (pc[p] = "dpt_body" /\ pc'[p] = "done")
             => /\ result'[p].kind = "return"
                /\ result'[p].value.database = "dev"
                /\ result'[p].value.schema = "platinum"
                /\ Range(result'[p].value.tables) = CatalogKeys
                /\ Len(result'[p].value.tables) = Cardinality(CatalogKeys)
          /\ (pc[p] = "rsq_table" /\ pc'[p] # "rsq_table")
             => Range(permitted_tables'[p]) = CatalogKeys]_vars

\* C10, amended: whatever edits the catalog has seen, database_permitted_tables
\* returns database dev, schema platinum and the keys the catalog has at the
\* moment of the call, and the guard's permitted list, read in the same way
\* in its own call, holds those names in lower case (the same names when
\* every key is written in lower case, as every key of the catalog at load is).
C10_PermittedTablesFreshLowered ==
    [][\A p \in Procs :
          /\ (pc[p] = "dpt_body" /\ pc'[p] = "done")
             => /\ result'[p].kind = "return"
                /\ result'[p].value.database = "dev"
                /\ result'[p].value.schema = "platinum"
                /\ Range(result'[p].value.tables) = CatalogKeys
                /\ Len(result'[p].value.tables) = Cardinality(CatalogKeys)
          /\ (pc[p] = "rsq_table" /\ pc'[p] # "rsq_table")
             => Range(permitted_tables'[p]) = {PyLower(k) : k \in CatalogKeys}]_vars

\* after a table was removed and others added, one of them with an
\* upper-case key, the guard has read its permitted list from the edited
\* catalog and let a statement on the new table through
C10_Witness ==
    \E p \in Procs :
        /\ pc[p] = "done"
        /\ fn[p] = "run_sql_query"
        /\ "API__ANALYTICS__REFUNDS" \in CatalogKeys
        /\ "api__analytics__visits" \in CatalogKeys
        /\ "api__analytics__orders" \notin CatalogKeys
        /\ "api__analytics__refunds" \in Range(permitted_tables[p])
        /\ "api__analytics__orders" \notin Range(permitted_tables[p])
        /\ executed[p] = <<"SELECT refund_id FROM platinum.api__analytics__refunds">>

-----------------------------------------------------------------------------
(* C11 - C20 *)

\* the catalog entry under key k, as get_tables_schema hands it out
CatalogEntry(k) ==
    [columns |-> schemas[CHOOSE i \in DOMAIN schemas : schemas[i].name = k].columns]

\* whether two mappings have the same keys and the same value under each
SameMapping(a, b) ==
    /\ DOMAIN a = DOMAIN b
    /\ \A k \in DOMAIN a : a[k] = b[k]

\* C11: get_tables_schema returns a mapping whose keys are exactly the last
\* '.'-separated segments of the names that are keys of the catalog, each
\* mapped to its catalog entry; when there is no such key, the empty list of
\* names included, it returns {error: "No matching tables found"}, never an
\* empty mapping.
C11_SchemaLookupIntersection ==
    [][\A p \in Procs :
          (pc[p] = "gts_body" /\ pc'[p] = "done")
          => LET wanted == {Unqualified(tables[p][i]) : i \in DOMAIN tables[p]}
                              \cap CatalogKeys
                 v      == result'[p].value
             IN  /\ result'[p].kind = "return"
                 /\ DOMAIN v # {}
                 /\ IF wanted = {}
                    THEN /\ DOMAIN v = {"error"}
                         /\ v.error = "No matching tables found"
                    ELSE /\ DOMAIN v = wanted
                         /\ \A k \in wanted : v[k] = CatalogEntry(k)]_vars

\* a qualified name of the catalog and a name outside it were asked for
C11_Witness ==
    \E p \in Procs :
        /\ pc[p] = "done"
        /\ fn[p] = "get_tables_schema"
        /\ tables[p] = <<"platinum.api__analytics__orders", "secret">>
        /\ DOMAIN result[p].value = {"api__analytics__orders"}
        /\ result[p].value["api__analytics__orders"].columns
              = <<"order_id", "order_created_at_date">>

\* C12: for every name t and every prefix p, get_tables_schema([p + "." + t])
\* returns what get_tables_schema([t]) returns, and when t is a key of the
\* catalog the result is keyed by t.
C12_PrefixStripped ==
    [][\A p \in Procs :
          (pc[p] = "gts_body" /\ pc'[p] = "done" /\ Len(tables[p]) = 1)
          => LET n == tables[p][1]
             IN  \A d \in Occurrences(n, ".") :
                    LET t == SubSeq(n, d + 1, Len(n))
                    IN  /\ SameMapping(result'[p].value,
                                       SchemaLookup(<<t>>, schemas))
                        /\ t \in CatalogKeys => DOMAIN result'[p].value = {t}]_vars

\* a name with a two-level prefix was looked up and answered under its bare
\* name
C12_Witness ==
    \E p \in Procs :
        /\ pc[p] = "done"
        /\ fn[p] = "get_tables_schema"
        /\ tables[p] = <<"a.b.api__analytics__summery">>
        /\ DOMAIN result[p].value = {"api__analytics__summery"}

\* the request nlp_to_sql was called with has no table / no usable columns
TableMissing(si) == "table" \notin DOMAIN si \/ si.table = ""
ColumnsEmpty(si) ==
    "columns" \notin DOMAIN si \/ si.columns = <<>> \/ si.columns = <<"*">>

\* neither the guard nor the database has seen anything of request p
NothingSentOn(p) ==
    /\ sql_arg[p] = PyNone
    /\ vetted[p] = {}
    /\ opened[p] = 0
    /\ executed[p] = <<>>

\* C13: nlp_to_sql answers "Table is missing." whenever table is absent or
\* empty, whatever the columns; otherwise "Columns cannot be empty." whenever
\* columns is absent, empty or the wildcard-only list; in both cases nothing
\* goes to the guard or the database.
C13_MissingTableOrColumns ==
    \A p \in Procs :
        (fn[p] = "nlp_to_sql" /\ pc[p] # "nlp_build")
        => /\ TableMissing(request[p])
              => /\ pc[p] = "done"
                 /\ Returned(p, [error |-> "Table is missing."])
                 /\ NothingSentOn(p)
           /\ (~TableMissing(request[p]) /\ ColumnsEmpty(request[p]))
              => /\ pc[p] = "done"
                 /\ Returned(p, [error |-> "Columns cannot be empty."])
                 /\ NothingSentOn(p)

\* a request that names good columns and no table was answered
C13_Witness ==
    \E p \in Procs :
        /\ pc[p] = "done"
        /\ fn[p] = "nlp_to_sql"
        /\ DOMAIN request[p] = {"columns", "limit"}
        /\ request[p].columns = <<"order_id">>
        /\ Returned(p, [error |-> "Table is missing."])

\* the declared columns of table t in the catalog
Declared(t) ==
    UNION { Range(schemas[i].columns) : i \in {j \in DOMAIN schemas : schemas[j].name = t} }

\* C14: for a request with a table and usable columns, if some requested
\* column is not declared for that table in the catalog (always so for a
\* table outside the catalog), nlp_to_sql answers "Invalid column '<col>' for
\* table '<table>'" with the first such column in request order, and nothing
\* goes to the guard or the database.
C14_FirstInvalidColumn ==
    \A p \in Procs :
        LET si  == request[p]
            bad == {i \in DOMAIN si.columns : si.columns[i] \notin Declared(si.table)}
        IN  (/\ fn[p] = "nlp_to_sql"
             /\ pc[p] # "nlp_build"
             /\ ~TableMissing(si)
             /\ ~ColumnsEmpty(si)
             /\ bad # {})
            => /\ pc[p] = "done"
               /\ Returned(p, [error |-> "Invalid column '" \o si.columns[Min(bad)]
                                            \o "' for table '" \o si.table \o "'"])
               /\ NothingSentOn(p)

\* two undeclared columns were requested and the first one was named
C14_Witness ==
    \E p \in Procs :
        /\ pc[p] = "done"
        /\ fn[p] = "nlp_to_sql"
        /\ "columns" \in DOMAIN request[p]
        /\ request[p].columns = <<"bogus", "*">>
        /\ "table" \in DOMAIN request[p]
        /\ request[p].table = "api__analytics__orders"
        /\ Returned(p, [error |-> "Invalid column 'bogus' for table 'api__analytics__orders'"])

\* k1 = 'v1' AND k2 = 'v2' ... for the filters from the i-th on
RECURSIVE WhereText(_, _)
WhereText(filters, i) ==
    IF i > Len(filters) THEN ""
    ELSE (IF i = 1 THEN " WHERE " ELSE " AND ")
            \o filters[i].col \o " = '" \o filters[i].val \o "'"
            \o WhereText(filters, i + 1)

\* c1, c2, ... for the columns from the i-th on
RECURSIVE SelectList(_, _)
SelectList(columns, i) ==
    IF i > Len(columns) THEN ""
    ELSE (IF i = 1 THEN "" ELSE ", ") \o columns[i] \o SelectList(columns, i + 1)

\* C15: the SQL a validated request hands to the guard is SELECT, the columns
\* joined by ", " in request order, FROM platinum.<table>, the WHERE clause
\* in filter order if and only if there are filters, LIMIT <limit>;
\* and for the scenario request it is
\* SELECT store_id, activity_date FROM platinum.api__analytics__summery LIMIT 3;
C15_BuiltSqlShape ==
    \A p \in Procs :
        (fn[p] = "nlp_to_sql" /\ sql_arg[p] # PyNone)
        => LET si == request[p]
               filters == IF "filters" \in DOMAIN si THEN si.filters ELSE <<>>
               limit   == IF "limit" \in DOMAIN si THEN si.limit ELSE 10
           IN  /\ sql_arg[p] = "SELECT " \o SelectList(si.columns, 1)
                                 \o " FROM platinum." \o si.table
                                 \o WhereText(filters, 1)
                                 \o " LIMIT " \o PyStr(limit) \o ";"
               /\ PyIn(" WHERE ", sql_arg[p]) <=> filters # <<>>
               /\ si \in ScenarioRequests
                  => sql_arg[p] = "SELECT store_id, activity_date FROM platinum.api__analytics__summery LIMIT 3;"

\* the scenario request was built, vetted and executed
C15_Witness ==
    \E p \in Procs :
        /\ pc[p] = "done"
        /\ fn[p] = "nlp_to_sql"
        /\ request[p] \in ScenarioRequests
        /\ executed[p] = <<"SELECT store_id, activity_date FROM platinum.api__analytics__summery LIMIT 3;">>
        /\ DOMAIN result[p].value = {"rows"}

\* request p has handed a statement to the guard through the builder
BuiltSql(p) == fn[p] \in {"nlp_to_sql", "safe_nl_query"} /\ sql_arg[p] # PyNone

\* C16: in every statement nlp_to_sql passes to run_sql_query, every column
\* of the select list and every filter key of the WHERE clause is a declared
\* column of the requested table.
C16_OnlyDeclaredColumnsSent ==
    \A p \in Procs :
        BuiltSql(p)
        => LET si      == request[p]
               filters == IF "filters" \in DOMAIN si THEN si.filters ELSE <<>>
           IN  /\ \A i \in DOMAIN si.columns : si.columns[i] \in Declared(si.table)
               /\ \A i \in DOMAIN filters : filters[i].col \in Declared(si.table)

\* the number after the last " LIMIT " of a built statement
LimitOf(sql) ==
    LET i == Max(Occurrences(sql, " LIMIT "))
    IN  PyInt(SubSeq(sql, i + 7, Len(sql) - 1))

\* the whitespace-separated words of the lower-cased prompt, and the places
\* where the word limit is followed by a whole number
PromptWords(up) == PySplit(PyLower(up))
IsNumber(w) == w # "" /\ \A i \in 1..Len(w) : Char(w, i) \in DigitChars
LimitPlaces(up) ==
    LET words == PromptWords(up)
    IN  {i \in 1..(Len(words) - 1) :
            words[i] = "limit" /\ IsNumber(words[i + 1])}

\* C17: the LIMIT of every statement sent to the guard by nlp_to_sql or
\* safe_nl_query is at least 1, and is 10 when the request or the prompt
\* names no limit.
C17_LimitPositive ==
    \A p \in Procs :
        BuiltSql(p)
        => /\ LimitOf(sql_arg[p]) >= 1
           /\ (fn[p] = "nlp_to_sql" /\ "limit" \notin DOMAIN request[p])
              => LimitOf(sql_arg[p]) = 10
           /\ (fn[p] = "safe_nl_query" /\ LimitPlaces(prompt[p]) = {})
              => LimitOf(sql_arg[p]) = 10

\* the places of the catalog whose lower-cased key occurs in the lower-cased
\* prompt
TablePlaces(up) ==
    LET lp == PyLower(up)
    IN  {i \in DOMAIN schemas : PyIn(PyLower(schemas[i].name), lp)}

\* request p takes the step of safe_nl_query that reads the prompt
Resolves(p) == pc[p] = "nl_resolve" /\ pc'[p] # "nl_resolve"

\* after the step, request p has returned error message m, no request was
\* built, and neither the guard nor the database has seen anything of it
FailsWith(p, m) ==
    /\ pc'[p] = "done"
    /\ result'[p] = [kind |-> "return", value |-> [error |-> m]]
    /\ request'[p] = <<>>
    /\ sql_arg'[p] = PyNone
    /\ vetted'[p] = {}
    /\ opened'[p] = 0
    /\ executed'[p] = <<>>

\* C18: safe_nl_query resolves the first table, in catalog order, whose
\* lower-cased name occurs in the lower-cased prompt, whatever else matches;
\* when none occurs it answers "No permitted table found in prompt." and
\* builds no SQL.
C18_FirstTableInCatalogOrder ==
    [][\A p \in Procs :
          Resolves(p)
          => LET places == TablePlaces(prompt[p])
             IN  IF places = {}
                 THEN FailsWith(p, "No permitted table found in prompt.")
                 ELSE /\ result'[p] # [kind |-> "return", value |->
                              [error |-> "No permitted table found in prompt."]]
                      /\ request'[p] # <<>>
                         => request'[p].table = schemas[Min(places)].name]_vars

\* a prompt that names store_token first and orders second, and the longer
\* name of which orders is a part, was resolved to orders
C18_Witness ==
    \E p \in Procs :
        /\ pc[p] = "done"
        /\ fn[p] = "safe_nl_query"
        /\ prompt[p] = "API__ANALYTICS__STORE_TOKEN api__analytics__orders_marketplace_stores order_id"
        /\ request[p] # <<>>
        /\ request[p].table = "api__analytics__orders"
        /\ executed[p] # <<>>

\* the columns of cols, in their order, whose lower-cased name occurs in the
\* lower-cased prompt
ColumnsInPrompt(cols, up) ==
    LET lp == PyLower(up)
        at == {i \in DOMAIN cols : PyIn(PyLower(cols[i]), lp)}
    IN  [k \in 1..Cardinality(at) |->
            cols[CHOOSE i \in at : Cardinality({j \in at : j <= i}) = k]]

\* C19: once a table is resolved, the requested columns are the declared
\* columns of that table whose lower-cased name occurs in the lower-cased
\* prompt, in catalog order; when none occurs, a table that declares no
\* columns included, the answer is the error that begins "No valid columns
\* found in prompt".
C19_ColumnsFromPrompt ==
    [][\A p \in Procs :
          (Resolves(p) /\ TablePlaces(prompt[p]) # {})
          => LET t      == schemas[Min(TablePlaces(prompt[p]))]
                 wanted == ColumnsInPrompt(t.columns, prompt[p])
             IN  IF wanted = <<>>
                 THEN /\ pc'[p] = "done"
                      /\ result'[p].kind = "return"
                      /\ DOMAIN result'[p].value = {"error"}
                      /\ PyStartsWith(result'[p].value.error,
                                      "No valid columns found in prompt")
                 ELSE /\ request'[p] # <<>>
                      /\ request'[p].columns = wanted]_vars

\* C19, amended: once a table is resolved, the requested columns are the
\* declared columns of that table whose lower-cased name occurs in the
\* lower-cased prompt, in catalog order; when the table declares no columns
\* the answer is "No schema found for table <table>.", and when it declares
\* columns of which none occurs the answer is "No valid columns found in
\* prompt. Please specify valid columns."; in both cases no SQL is built.
C19_ColumnsFromPromptOrNoSchema ==
    [][\A p \in Procs :
          (Resolves(p) /\ TablePlaces(prompt[p]) # {})
          => LET t      == schemas[Min(TablePlaces(prompt[p]))]
                 wanted == ColumnsInPrompt(t.columns, prompt[p])
             IN  IF t.columns = <<>>
                 THEN FailsWith(p, "No schema found for table " \o t.name \o ".")
                 ELSE IF wanted = <<>>
                 THEN FailsWith(p,
                        "No valid columns found in prompt. Please specify valid columns.")
                 ELSE /\ request'[p] # <<>>
                      /\ request'[p].columns = wanted]_vars

\* a prompt that resolves the table without declared columns, and names a
\* column of other tables, was answered
C19_Witness ==
    \E p \in Procs :
        /\ pc[p] = "done"
        /\ fn[p] = "safe_nl_query"
        /\ prompt[p] = "api__analytics__affiliates store_id"
        /\ Returned(p, [error |-> "No schema found for table api__analytics__affiliates."])

-----------------------------------------------------------------------------
(* C21: overlapping requests *)

\* C21: in every interleaving of overlapping requests, the connection a
\* request executes its statement on was taken from an engine that the same
\* request created, in run_sql_query and in Pipe.pipe alike: no request works
\* on an engine that another request wrote.
C21_OwnEngine ==
    \A p \in Requests :
        conn_engine[p] # 0 => conn_engine[p] = p

-----------------------------------------------------------------------------
(* C22: the catalog is read-only for the entry points *)

\* C22: after any sequence of calls of database_permitted_tables,
\* get_tables_schema, run_sql_query, nlp_to_sql and safe_nl_query, with any
\* arguments and any outcomes, the catalog (its table names, in their order,
\* and their column lists) is equal to the catalog at load.
C22_CatalogNeverMutated == schemas = CatalogAtLoad

\* a natural-language request went all the way to the database and came back
\* with rows, having read the catalog in the wrapper, the builder and the guard
C22_Witness ==
    \E p \in Procs :
        /\ pc[p] = "done"
        /\ fn[p] = "safe_nl_query"
        /\ Len(executed[p]) = 1
        /\ Len(rows[p]) = 1
        /\ result[p] = Return(RowsResult(rows[p]))

-----------------------------------------------------------------------------
(* C23: the frame of the rewrite *)

\* the statement q with `platinum.` put in front of the token that follows
\* its first FROM, and no other character touched
PrefixedAfterFrom(q) ==
    LET i == PyFind(q, "FROM")
        j == i + 4 + RunLen(q, i + 4, Whitespace)
    IN  SubSeq(q, 1, j - 1) \o "platinum." \o SubSeq(q, j, Len(q))

\* the guard's table step changes the statement of request p
Rewrites(p) ==
    /\ pc[p] = "rsq_table"
    /\ query'[p] # query[p]

\* C23: when the guard rewrites a statement, the result is the input with the
\* one table token after the first FROM turned into platinum.<table>; every
\* other character is unchanged, a semicolon attached to the token and other
\* occurrences of the same text included.
C23_RewriteTouchesOneToken ==
    [][\A p \in Procs :
          Rewrites(p) => query'[p] = PrefixedAfterFrom(query[p])]_vars

-----------------------------------------------------------------------------
(* C24: statements without FROM *)

\* the upper-cased form of q does not contain FROM
NoFrom(q) == ~PyIn("FROM", PyUpper(q))

\* C24: a statement that has passed the mutation check and whose upper-cased
\* form does not contain FROM leaves the guard's table step for the engine
\* with its text unchanged, and the text handed to conn.execute is the
\* statement the call was given, character for character.
C24_NoFromPassesThrough ==
    [][\A p \in Procs :
          (/\ pc[p] \in {"rsq_table", "rsq_execute"}
           /\ NoFrom(sql_arg[p]))
          => /\ pc[p] = "rsq_table"
                  => /\ pc'[p] = "rsq_engine"
                     /\ query'[p] = sql_arg[p]
                     /\ sql_arg[p] \in vetted'[p]
             /\ pc[p] = "rsq_execute"
                  => executed'[p] = <<sql_arg[p]>>]_vars

\* a statement without FROM was executed as it was given and returned rows
C24_Witness ==
    \E p \in Procs :
        /\ pc[p] = "done"
        /\ fn[p] = "run_sql_query"
        /\ executed[p] = <<"SELECT secret">>
        /\ sql_arg[p] = "SELECT secret"
        /\ Len(rows[p]) = 1
        /\ result[p] = Return(RowsResult(rows[p]))

-----------------------------------------------------------------------------
(* C25: the order of the steps of one request *)

\* request p moves to position `at` in this step
Reaches(p, at) == pc[p] # at /\ pc'[p] = at

\* the positions of the builder and of the guard, where a request is rejected
RejectingSteps == {"nl_resolve", "nlp_build", "rsq_mutation", "rsq_table"}

\* C25: within one request of the toolkit the steps come in the order builder
\* validation, mutation check, table check, engine and connection, execution,
\* each reached from the one before it only; a request that the builder or the
\* guard ends has created no engine, opened no connection and executed
\* nothing, and stays ended; a request executes at most one statement, on a
\* connection it holds open.
C25_StepOrder ==
    [][\A p \in Procs :
          fn'[p] \in ToolkitFns =>
             /\ Reaches(p, "nlp_build") => pc[p] \in {"idle", "nl_resolve"}
             /\ Reaches(p, "rsq_mutation") => pc[p] \in {"idle", "nlp_build"}
             /\ Reaches(p, "rsq_table") => pc[p] = "rsq_mutation"
             /\ Reaches(p, "rsq_engine") => pc[p] = "rsq_table"
             /\ Reaches(p, "rsq_connect") => pc[p] = "rsq_engine"
             /\ Reaches(p, "rsq_execute") => pc[p] = "rsq_connect"
             /\ engine'[p] # engine[p] => pc[p] = "rsq_engine"
             /\ opened'[p] # opened[p]
                   => /\ pc[p] = "rsq_connect"
                      /\ engine[p] = p
                      /\ opened[p] = 0
             /\ executed'[p] # executed[p]
                   => /\ pc[p] = "rsq_execute"
                      /\ open[p] = 1
                      /\ executed[p] = <<>>
                      /\ executed'[p] = <<query[p]>>
             /\ (pc[p] \in RejectingSteps /\ pc'[p] = "done")
                   => /\ engine'[p] = 0
                      /\ opened'[p] = 0
                      /\ executed'[p] = <<>>
             /\ pc[p] = "done" => pc'[p] = "done"]_vars

\* a request went through the builder, both checks of the guard, its own
\* engine and connection, and one execution
C25_Witness ==
    \E p \in Procs :
        /\ pc[p] = "done"
        /\ fn[p] = "nlp_to_sql"
        /\ vetted[p] # {}
        /\ engine[p] = p
        /\ opened[p] = 1
        /\ open[p] = 0
        /\ Len(executed[p]) = 1

-----------------------------------------------------------------------------
(* C26: the mutation check holds of what is executed *)

\* C26: every statement that run_sql_query hands to conn.execute starts, in
\* upper case, with SELECT, or contains none of INSERT, DROP, DELETE,
\* TRUNCATE, ALTER as a substring.
C26_ExecutedPassesMutationCheck ==
    \A p \in Procs :
        fn[p] \in ToolkitFns =>
            \A i \in DOMAIN executed[p] : PassesMutationCheck(executed[p][i])

-----------------------------------------------------------------------------
(* C27: the guard on the builder's SQL *)

\* the token that follows the first FROM of q, FROM in upper case as the
\* guard's split looks for it, without a trailing semicolon
TokenAfterUpperFrom(q) ==
    LET parts == PySplit1(q, "FROM")
        toks  == IF Len(parts) < 2 THEN <<>> ELSE PySplit(parts[2])
    IN  IF toks = <<>> THEN PyNone ELSE PyReplace(toks[1], ";", "")

\* C27: for every request the builder accepts, the SQL it built passes the
\* mutation check and the table check, leaves the guard unchanged and is the
\* statement executed, character for character; its table token is
\* platinum.<table>, and <table> is a key of the catalog.
C27_BuiltSqlUntouched ==
    [][\A p \in Procs :
          BuiltSql(p) =>
             /\ pc[p] = "rsq_mutation" => pc'[p] = "rsq_table"
             /\ pc[p] = "rsq_table"
                   => /\ sql_arg[p] = BuildSql(request[p], schemas).query
                      /\ pc'[p] = "rsq_engine"
                      /\ query'[p] = sql_arg[p]
                      /\ TokenAfterUpperFrom(sql_arg[p])
                            = "platinum." \o request[p].table
                      /\ request[p].table \in CatalogKeys
             /\ pc[p] = "rsq_execute" => executed'[p] = <<sql_arg[p]>>]_vars

\* the SQL built for the column whose name contains `from` was executed as
\* it was built
C27_Witness ==
    \E p \in Procs :
        /\ pc[p] = "done"
        /\ fn[p] = "nlp_to_sql"
        /\ sql_arg[p] = "SELECT orders_from_automated_discounts_count FROM platinum.api__analytics__summery LIMIT 3;"
        /\ executed[p] = <<sql_arg[p]>>
        /\ result[p] = Return(RowsResult(rows[p]))

-----------------------------------------------------------------------------
(* C28: a table name inside a longer table name *)

\* the prompt names the table t: t occurs in the lower-cased prompt at a
\* place where it is not a part of the longer name of another table of the
\* catalog
NamedIn(t, up) ==
    LET lp == PyLower(up)
    IN  \E i \in Occurrences(lp, t) :
           \A k \in DOMAIN schemas :
              LET longer == PyLower(schemas[k].name)
              IN  (longer # t /\ PyIn(t, longer))
                  => \A j \in Occurrences(lp, longer) :
                        ~(j <= i /\ i + Len(t) <= j + Len(longer))

\* C28: the table safe_nl_query builds its request against is a table the
\* prompt names; when the prompt holds the full name of a table T, a table
\* whose shorter name is only a part of T's name is never chosen in its place.
C28_LongestNameWins ==
    [][\A p \in Procs :
          (Resolves(p) /\ pc'[p] = "nlp_build")
          => NamedIn(PyLower(request'[p].table), prompt[p])]_vars

-----------------------------------------------------------------------------
(* C29: the guard applied to its own output *)

\* the guard of run_sql_query as a function of the statement: the blacklist
\* loop, then the permitted-table check and rewrite
GuardOf(q) ==
    LET keyword == BlockedKeyword(q)
    IN  IF keyword # ""
        THEN Return(ErrorResult("Query contains blacklisted keyword: " \o keyword))
        ELSE TableCheck(q, database_permitted_tables(schemas))

\* C29: for every statement the guard accepts, the statement it sends on,
\* rewritten or not, is accepted by the guard again and comes out of it
\* unchanged: the schema prefix is never applied twice.
C29_GuardIdempotent ==
    [][\A p \in Procs :
          (pc[p] = "rsq_table" /\ pc'[p] = "rsq_engine")
          => LET again == GuardOf(query'[p])
             IN  /\ again.kind = "pass"
                 /\ again.query = query'[p]]_vars

-----------------------------------------------------------------------------
(* C30: the status notifications of the pipe *)

\* the three notifications of one invocation, in the order of the checkpoints
Checkpoints ==
    << [description |-> "Connecting to the database...", done |-> FALSE],
       [description |-> "Querying the database...",      done |-> FALSE],
       [description |-> "Returning response...",         done |-> TRUE] >>

\* C30: in every invocation of Pipe.pipe the notifications emitted so far are
\* the first ones of connecting, querying, returning, in that order; once the
\* notification with done = true is out, the language model has answered, the
\* generated SQL has been executed and the request does no more work.
C30_DoneAfterWork ==
    \A p \in Requests :
        fn[p] = "pipe" =>
            /\ Len(events[p]) <= Len(Checkpoints)
            /\ events[p] = SubSeq(Checkpoints, 1, Len(events[p]))
            /\ (\E i \in DOMAIN events[p] : events[p][i].done)
                  => pc[p] = "done"

=============================================================================
